---- MODULE Spec2Model ----
(***************************************************************************)
(* Verification model of the structural-schooling calibration core         *)
(* (src/model.py): the relative-expenditure resolver, the wage bills, the  *)
(* finite-difference Jacobian, the damped Newton solver solve_foc and the  *)
(* outer calibration loop.                                                 *)
(*                                                                         *)
(* Closed-form leaf functions of (tw, sf, sm) are real valued and use exp  *)
(* and pow; they are kept symbolic.  A relative expenditure is a monomial  *)
(* over the leaf functions ("atoms"): a map atom -> integer exponent.      *)
(* Products add exponents, reciprocals negate them, and the constant       *)
(* function 1 is the all-zero map.                                         *)
(***************************************************************************)
EXTENDS Integers, Sequences, FiniteSets, TLC

VARIABLES
    \* relative-expenditure resolver (make_relative_expenditure)
    keys, over, under, Efwd, Erev, Ecns, rpc,
    \* wage bills (make_female_wage_bill / make_male_wage_bill)
    wIdx, wTw, wAdj, wIf, wIm, wpc,
    \* finite-difference Jacobian (make_jacobian)
    jProf, jRes, jpc,
    \* Newton solver (solve_foc)
    pc, n, converged, y, yn, Flen, alam, stepped, warned, result, err,
    \* outer calibration loop (calibrate_if_not_exists_and_save)
    cpc, adaptive, file, calibrated, x0, min_sae, trials, best, calRes, cerr,
    \* history of the run: exists(filename) at line 1375 and the
    \* <<solution, sae>> of every trial solved
    existed, seen,
    \* persistence (save_calibration_if_not_exists / load_calibration)
    pRec, pFile, pOld, pRet, pLoaded, ppc,
    \* model data (make_model_data, set_calibrated_data, the setup hooks, F)
    dpc, cal, hooks, calibration_init, initializers, calibrated_parameters,
    bounds, xinit, yvec, hookDone, derr,
    \* time allocation at a point (make_female_total_time_allocation /
    \* make_male_total_time_allocation)
    tVal, tTw, tD, tC, tE, tR, tLf, tLm, tpc,
    \* calibration setups (calibration_mode.mapping, calibration_traits.setups)
    \* and the weighted targets of calibration_traits
    hTable, hMode, hCallback, hData0, hData, hTarget, hDataVal, hPredVal, hError,
    hErr, hpc,
    \* schooling conditions (make_female_schooling_condition /
    \* make_male_schooling_condition)
    gKeys, gIndex, gGender, gOther, gE, gVal, gFactor, gpc

rvars == <<keys, over, under, Efwd, Erev, Ecns, rpc>>
wvars == <<wIdx, wTw, wAdj, wIf, wIm, wpc>>
jvars == <<jProf, jRes, jpc>>
svars == <<pc, n, converged, y, yn, Flen, alam, stepped, warned, result, err>>
cvars ==
    <<cpc, adaptive, file, calibrated, x0, min_sae, trials, best, calRes, cerr,
      existed, seen>>
pvars == <<pRec, pFile, pOld, pRet, pLoaded, ppc>>
dvars ==
    <<dpc, cal, hooks, calibration_init, initializers, calibrated_parameters,
      bounds, xinit, yvec, hookDone, derr>>
tvars == <<tVal, tTw, tD, tC, tE, tR, tLf, tLm, tpc>>
hvars ==
    <<hTable, hMode, hCallback, hData0, hData, hTarget, hDataVal, hPredVal, hError,
      hErr, hpc>>
gvars == <<gKeys, gIndex, gGender, gOther, gE, gVal, gFactor, gpc>>
vars == <<rvars, wvars, jvars, svars, cvars, pvars, dvars, tvars, hvars, gvars>>

(***************************************************************************)
(* Index taxonomy                                                          *)
(***************************************************************************)
sectors == {"A", "M", "S"}

technologies == {"h", "r"}

Idx(s, t) ==
    IF s = "A" THEN (IF t = "h" THEN "Ah" ELSE "Ar")
    ELSE IF s = "M" THEN (IF t = "h" THEN "Mh" ELSE "Mr")
    ELSE (IF t = "h" THEN "Sh" ELSE "Sr")

ProductionIndices == {Idx(s, t) : s \in sectors, t \in technologies}

FlowIndices == ProductionIndices \cup {"l"}

SectorOf(i) ==
    IF i \in {"Ah", "Ar"} THEN "A" ELSE IF i \in {"Mh", "Mr"} THEN "M" ELSE "S"

\* indices.endswith("r")
EndsWithR(i) == i \in {"Ar", "Mr", "Sr"}

\* over[0] + ("h" if over[1] == "r" else "r")
OtherTechnology(i) == Idx(SectorOf(i), IF EndsWithR(i) THEN "h" ELSE "r")

(***************************************************************************)
(* Calibrated relative productivities: the key Z_{left}{right} is the pair *)
(* <<left, right>>.                                                        *)
(***************************************************************************)
DefaultKeys ==
    {<<"Ar", "Ah">>, <<"Mr", "Mh">>, <<"Sr", "Sh">>, <<"Ar", "Sr">>, <<"Mr", "Sr">>}

\* A schema with Z_MrSr missing: manufacturing is cut off from the rest.
CutKeys == DefaultKeys \ {<<"Mr", "Sr">>}

KeySets == {DefaultKeys, CutKeys}

LeisureAtoms == {<<"l", "Ar">>, <<"l", "Mr">>, <<"l", "Sr">>}

Atoms == DefaultKeys \cup LeisureAtoms

(***************************************************************************)
(* Symbolic functions of (tw, sf, sm).                                     *)
(*   kind    "fn" a constructed function, "IndexError" construction        *)
(*           crashed on interject[0] of an empty list, "none" not built    *)
(*   exp     exponent of every atom in the monomial                        *)
(*   lookups number of has_relative_productivity calls made to build it    *)
(***************************************************************************)
ZeroExp == [a \in Atoms |-> 0]

Const1 == [kind |-> "fn", exp |-> ZeroExp, lookups |-> 0]

NoFn == [kind |-> "none", exp |-> ZeroExp, lookups |-> 0]

Crash(k) == [kind |-> "IndexError", exp |-> ZeroExp, lookups |-> k]

Atom(a, k) ==
    [kind |-> "fn", exp |-> [b \in Atoms |-> IF b = a THEN 1 ELSE 0], lookups |-> k]

\* lambda tw, sf, sm: f(tw, sf, sm) * g(tw, sf, sm)
Mul(f, g) ==
    IF f.kind = "fn" /\ g.kind = "fn"
    THEN [kind |-> "fn", exp |-> [a \in Atoms |-> f.exp[a] + g.exp[a]],
          lookups |-> f.lookups + g.lookups]
    ELSE Crash(f.lookups + g.lookups)

\* lambda tw, sf, sm: 1 / f(tw, sf, sm)
Inv(f) ==
    IF f.kind = "fn"
    THEN [kind |-> "fn", exp |-> [a \in Atoms |-> 0 - f.exp[a]], lookups |-> f.lookups]
    ELSE f

\* one more has_relative_productivity call on the way to f
Looked(f) == [f EXCEPT !.lookups = @ + 1]

IsOne(f) == f.kind = "fn" /\ f.exp = ZeroExp

has_relative_productivity(ks, ov, un) ==
    IF <<ov, un>> \in ks THEN 1 ELSE IF <<un, ov>> \in ks THEN -1 ELSE 0

productivity_conjugate_right_indices(ks, left) ==
    {k[2] : k \in {kk \in ks : kk[1] = left}}

productivity_conjugate_left_indices(ks, right) ==
    {k[1] : k \in {kk \in ks : kk[2] = right}}

\* A search that follows the keys from left to right only.
productivity_conjugate_indices_RightOnly(ks, index) ==
    productivity_conjugate_right_indices(ks, index)

productivity_conjugate_indices(ks, index) ==
    productivity_conjugate_right_indices(ks, index)
        \cup productivity_conjugate_left_indices(ks, index)

RECURSIVE make_relative_consumption_expenditure(_, _, _)
RECURSIVE ResolveNonTrivial(_, _, _)

\* The three-hop product of lines 478-494: the third factor is built for
\* (interject1, interject3).
ThreeHopChain(ks, ov, un, c) ==
    {Mul(Mul(a, b), Mul(x, d)) :
        a \in make_relative_consumption_expenditure(ks, ov, c[1]),
        b \in make_relative_consumption_expenditure(ks, c[1], c[2]),
        x \in make_relative_consumption_expenditure(ks, c[1], c[3]),
        d \in make_relative_consumption_expenditure(ks, c[3], un)}

\* Everything make_relative_consumption_expenditure does after its trivial
\* case.  list(set)[0] takes whichever element the set happens to list
\* first, so every candidate is a possible result.
ResolveNonTrivial(ks, ov, un) ==
    LET direct == has_relative_productivity(ks, ov, un)
        over_conj == productivity_conjugate_indices(ks, ov)
        under_conj == productivity_conjugate_indices(ks, un)
        one == over_conj \cap under_conj
        two == {c \in over_conj \X ProductionIndices :
                   /\ c[2] \in productivity_conjugate_indices(ks, c[1])
                   /\ c[2] \in under_conj}
        three == {c \in over_conj \X ProductionIndices \X ProductionIndices :
                   /\ c[2] \in productivity_conjugate_indices(ks, c[1])
                   /\ c[3] \in productivity_conjugate_indices(ks, c[2])
                   /\ c[3] \in under_conj}
    IN  IF direct = -1
        THEN {Looked(Inv(e)) : e \in make_relative_consumption_expenditure(ks, un, ov)}
        ELSE IF direct = 0
        THEN IF one # {}
             THEN UNION {{Looked(Mul(a, b)) :
                            a \in make_relative_consumption_expenditure(ks, ov, k),
                            b \in make_relative_consumption_expenditure(ks, k, un)} :
                         k \in one}
             ELSE IF two # {}
             THEN UNION {{Looked(Mul(Mul(a, b), d)) :
                            a \in make_relative_consumption_expenditure(ks, ov, c[1]),
                            b \in make_relative_consumption_expenditure(ks, c[1], c[2]),
                            d \in make_relative_consumption_expenditure(ks, c[2], un)} :
                         c \in two}
             ELSE IF three = {}
             THEN {Crash(1)}
             ELSE UNION {{Looked(e) : e \in ThreeHopChain(ks, ov, un, c)} : c \in three}
        ELSE IF SectorOf(ov) = SectorOf(un)
        THEN {Atom(<<ov, un>>, 1)}
        ELSE \* cross-sector closed form; it builds E_ipir and E_jqjy first
             {IF a.kind = "fn" /\ b.kind = "fn"
                  THEN Atom(<<ov, un>>, 1 + a.lookups + b.lookups)
                  ELSE Crash(1 + a.lookups + b.lookups) :
                a \in make_relative_consumption_expenditure(ks, ov, OtherTechnology(ov)),
                b \in make_relative_consumption_expenditure(ks, un, OtherTechnology(un))}

\* A resolver that lost its trivial case and searches a path from A to A.
make_relative_consumption_expenditure_NoTrivial(ks, ov, un) ==
    ResolveNonTrivial(ks, ov, un)

make_relative_consumption_expenditure(ks, ov, un) ==
    IF ov = un THEN {Const1} ELSE ResolveNonTrivial(ks, ov, un)

RECURSIVE make_relative_expenditure(_, _, _)
make_relative_expenditure(ks, ov, un) ==
    IF ov = un THEN {Const1}
    ELSE IF un = "l"
    THEN {Inv(e) : e \in make_relative_expenditure(ks, un, ov)}
    ELSE IF ov = "l" /\ EndsWithR(un)
    THEN \* E_lj evaluates E(other, under) on every call
         {IF e.kind = "fn" THEN Atom(<<"l", un>>, e.lookups) ELSE Crash(e.lookups) :
            e \in make_relative_consumption_expenditure(ks, OtherTechnology(un), un)}
    ELSE IF ov = "l"
    THEN {Mul(a, b) :
            a \in make_relative_expenditure(ks, "l", OtherTechnology(un)),
            b \in make_relative_expenditure(ks, OtherTechnology(un), un)}
    ELSE make_relative_consumption_expenditure(ks, ov, un)

(***************************************************************************)
(* Exact rationals <<numerator, denominator>>, denominator > 0, in lowest  *)
(* terms.                                                                  *)
(***************************************************************************)
RECURSIVE Gcd(_, _)
Gcd(a, b) == IF b = 0 THEN a ELSE Gcd(b, a % b)

Abs(x) == IF x < 0 THEN 0 - x ELSE x

Rat(p, q) ==
    LET g == Gcd(Abs(p), Abs(q))
        s == IF q < 0 THEN 0 - 1 ELSE 1
    IN  <<(s * p) \div g, (s * q) \div g>>

RatOne == <<1, 1>>

RatAdd(u, v) == Rat(u[1] * v[2] + v[1] * u[2], u[2] * v[2])

RatSub(u, v) == Rat(u[1] * v[2] - v[1] * u[2], u[2] * v[2])

RatMul(u, v) == Rat(u[1] * v[1], u[2] * v[2])

RatInv(x) == Rat(x[2], x[1])

(***************************************************************************)
(* Wage bills.  The inputs are the values of the two powers               *)
(* pow(tw, eta - 1) and pow(d(sf) h(sf) / d(sm) / h(sm), eta - 1) at the   *)
(* point of evaluation; A = pow(xi_i / (1 - xi_i), -eta) is data of the    *)
(* index.                                                                  *)
(***************************************************************************)
MaxPow == 3

PowValues == {Rat(p, q) : p \in 1..MaxPow, q \in 1..MaxPow}

\* A of make_female_wage_bill: one value per index (xi_i is input data)
ACoef(i) ==
    IF i = "Ah" THEN <<1, 2>> ELSE IF i = "Ar" THEN <<2, 3>>
    ELSE IF i = "Mh" THEN <<3, 2>> ELSE IF i = "Mr" THEN <<1, 3>>
    ELSE IF i = "Sh" THEN <<2, 1>> ELSE IF i = "Sr" THEN <<3, 4>>
    ELSE <<5, 4>>

adjustment(i, adj) == IF EndsWithR(i) THEN RatOne ELSE adj

make_female_wage_bill(i, tw, adj) ==
    RatInv(RatAdd(RatOne, RatMul(RatMul(ACoef(i), tw), adjustment(i, adj))))

\* A male bill that is built from the leisure bill whatever the index.
make_male_wage_bill_Leisure(i, tw, adj) ==
    RatSub(RatOne, make_female_wage_bill("l", tw, adj))

make_male_wage_bill(i, tw, adj) ==
    RatSub(RatOne, make_female_wage_bill(i, tw, adj))

(***************************************************************************)
(* IEEE-754 doubles near a power of ten.  <<d, u>> is the double u ulps    *)
(* above the double nearest to 10^-d (the value of the literal 1e-d).      *)
(* Division by 10 rounds to nearest; FloatDiv10 gives the results Python   *)
(* computes on the two chains the program walks, 10.0 -> 1e-8 and          *)
(* 1e-10 -> 1e-14.                                                         *)
(***************************************************************************)
FloatDiv10(x) ==
    IF x = <<5, 0>> THEN <<6, 1>>        \* 1e-05 / 10 = 1.0000000000000002e-06
    ELSE IF x = <<6, 1>> THEN <<7, 2>>   \* ... / 10 = 1.0000000000000002e-07
    ELSE IF x = <<7, 2>> THEN <<8, 1>>   \* ... / 10 = 1.0000000000000002e-08
    ELSE IF x = <<10, 0>> THEN <<11, 1>> \* 1e-10 / 10 = 1.0000000000000001e-11
    ELSE <<x[1] + 1, x[2]>>              \* same offset one decade down

\* Division by 10 in exact decimal arithmetic: every quotient is the literal.
FloatDiv10_Exact(x) == <<x[1] + 1, 0>>

FloatGt(a, b) == a[1] < b[1] \/ (a[1] = b[1] /\ a[2] > b[2])

\* model_data["optimizer"]
step == <<10, 0>>

min_step == <<12, 0>>

lambda == <<0, 0>>

maxn == 35

\* A start of the schedule at lambda itself.
TenTimes_One(x) == x

\* lam * 10
TenTimes(x) == <<x[1] - 1, x[2]>>

\* the literal 1e-6 of the backtracking loop
alam_floor == <<6, 0>>

(***************************************************************************)
(* make_jacobian.  What F does around y at the k-th step tried is the      *)
(* k-th entry of a profile:                                                *)
(*   "clean"   every column is set and finite                              *)
(*   "nan"     some evaluation of F returned NaN                           *)
(*   "zerodiv" some evaluation raised ZeroDivisionError; the column stays  *)
(*             NaN                                                         *)
(*   "raise"   some evaluation raised another exception (math domain       *)
(*             error), which make_jacobian does not catch                  *)
(* Beyond the end of the profile F keeps returning NaN.                    *)
(***************************************************************************)
JacProfileLen == 4

AttemptOutcomes == {"clean", "nan", "zerodiv", "raise"}

JacProfiles == [1..JacProfileLen -> AttemptOutcomes]

OutcomeAt(prof, k) == IF k \in DOMAIN prof THEN prof[k] ELSE "nan"

\* A shrink computed in exact decimal arithmetic.
ShrinkStep_Exact(s) == FloatDiv10_Exact(s)

\* step = step / 10 (line 1208)
ShrinkStep(s) == FloatDiv10(s)

RECURSIVE JacobianLoop(_, _, _)
JacobianLoop(s, prof, k) ==
    IF FloatGt(s, min_step)
    THEN IF OutcomeAt(prof, k) = "raise"
         THEN [status |-> "ValueError:F", step |-> s, attempts |-> k]
         ELSE IF OutcomeAt(prof, k) = "clean"
         THEN [status |-> "ok", step |-> s, attempts |-> k]
         ELSE JacobianLoop(ShrinkStep(s), prof, k + 1)
    ELSE [status |-> "ValueError:Jacobian", step |-> s, attempts |-> k - 1]

jacobian(prof) == JacobianLoop(step, prof, 1)

NoJacobian == [status |-> "none", step |-> step, attempts |-> 0]

JacStatuses == {jacobian(p).status : p \in JacProfiles}

AllNaN == [k \in 1..JacProfileLen |-> "nan"]

(***************************************************************************)
(* Points of (tw, sf, sm) as solve_foc sees them:                          *)
(*   neg   the components that are negative                                *)
(*   F     "value", or the exception F raises there                        *)
(*   norm  the residual norm |F| in units of Ftol, NaN if F has a NaN      *)
(*   J     the status of make_jacobian there                               *)
(*   sing  numpy.linalg.inv raises LinAlgError on the Jacobian             *)
(* F is a fixed function, so a point keeps its record.                     *)
(***************************************************************************)
Components == {"tw", "sf", "sm"}

NaN == 0 - 1

MaxNorm == 38

\* Ftol and htol in the unit of the norms
Ftol == 1

NormLt(a, b) == a # NaN /\ b # NaN /\ a < b

NormLeq(a, b) == a # NaN /\ b # NaN /\ a <= b

Point(ng, f, r, j, s) == [neg |-> ng, F |-> f, norm |-> r, J |-> j, sing |-> s]

NoPoint == Point({}, "none", NaN, "none", FALSE)

\* An F that is finite and smooth for negative arguments too.
FocAt_Total(ng, p) == [p EXCEPT !.neg = ng]

\* The domain of F.  A negative tw makes m.pow(tw, eta - 1) of the wage
\* bills raise ValueError; a negative sf or sm makes numpy.power(s, 1 - nu)
\* of the human capital NaN, at the point and all around it.
FocAt(ng, p) ==
    IF "tw" \in ng THEN Point(ng, "ValueError", NaN, "ValueError:F", FALSE)
    ELSE IF ng # {} THEN Point(ng, "value", NaN, jacobian(AllNaN).status, FALSE)
    ELSE p

\* What F and J may do at a point with no negative component.
RegularPoints(norms) ==
    {Point({}, "ZeroDivisionError", NaN, "none", FALSE),
     Point({}, "ValueError", NaN, "ValueError:F", FALSE)}
    \cup {Point({}, "value", r, j, FALSE) : r \in norms, j \in JacStatuses}
    \cup {Point({}, "value", r, "ok", TRUE) : r \in norms}

PointsWith(norms) ==
    {FocAt(ng, p) : ng \in SUBSET Components, p \in RegularPoints(norms)}

\* Residual norms of the candidates y + alam * h around the current norm.
NearNorms(f) ==
    IF f = NaN THEN {NaN, 0, Ftol}
    ELSE {NaN, 0, Ftol} \cup ({f - 1, f, f + 1} \cap 0..MaxNorm)

\* Residual norms at the caller's guess x0.
GuessNorms == {NaN, 0, Ftol, Ftol + 1, MaxNorm}

\* What F and J may do at the caller's guess, and at the candidates of an
\* iterate whose norm is f.
GuessPoints == PointsWith(GuessNorms)

CandidatePoints == [f \in {NaN} \cup 0..MaxNorm |-> PointsWith(NearNorms(f))]

\* while n <= maxn and not converged (line 1233)
OuterGuard(k, conv) == k <= maxn /\ ~conv

\* while not stepped and alam > 1e-6 (line 1245)
BacktrackGuard(st, a) == ~st /\ FloatGt(a, alam_floor)

\* An update that leaves the damping factor where it is.
NextAlam_Stuck(a) == a

\* alam = alam / 10 (line 1246)
NextAlam(a) == FloatDiv10(a)

\* A comparison that also takes an equal norm.
Improves_Leq(r, f) == NormLeq(r, f)

\* np.linalg.norm(Fvn) < Flen (line 1252)
Improves(r, f) == NormLt(r, f)

\* An acceptance test on the residual norm alone.
Accepted_NormOnly(c, f) ==
    /\ c.F = "value"
    /\ Improves(c.norm, f)

\* lines 1249-1253: F(yn), J(yn), inv(Jvn), the norm test, the NaN test
Accepted(c, f) ==
    /\ c.F = "value" /\ c.J = "ok" /\ ~c.sing
    /\ Improves(c.norm, f)

\* A solver that treats an exhausted budget as an error.
ExitStatus_Strict(conv) == IF conv THEN "done" ELSE "failed"

\* lines 1269-1273: the solver ends normally, converged or not
ExitStatus(conv) == "done"

(***************************************************************************)
(* Outer calibration.  Parameter vectors, equilibrium vectors and sums of  *)
(* absolute errors are small integers; vector 0 is the initializers and    *)
(* equilibrium 0 the guess of the input data.                              *)
(***************************************************************************)
MaxTrials == 3

MaxParam == 2

MaxSol == 2

MaxSae == 1

\* min_sae = 100 (line 1283)
InitMinSae == 100

SaeValues == 0..MaxSae \cup {InitMinSae, InitMinSae + 1}

\* How a call of solve_foc can end in an exception (the err of the solver).
SolveErrors ==
    {"ValueError:Jacobian", "ValueError:F", "ValueError:step", "LinAlgError",
     "ZeroDivisionError"}

NoRecord == [x |-> 0 - 1, fun |-> 0 - 1, success |-> FALSE]

\* a record left on disk by an earlier run
OldRecord == [x |-> MaxParam, fun |-> 0, success |-> TRUE]

\* set_calibrated_data(model_data, dict(zip(calibrated_parameters, y)))
set_calibrated_data(data, x) == x

\* What an exception raised inside errors() does to the run: nothing in
\* errors(), in the lambda or in scipy's minimize catches it.
OnTrialError(e) == "aborted"

\* A run that always re-optimises.
FileMissing_Always(f) == TRUE

\* not exists(filename) (lines 1333 and 1375); the file is its record
FileMissing(f) == f = NoRecord

\* The file after save_calibration_if_not_exists(filename, r) (lines
\* 1333-1338): written only if there is none.
FileAfterSave(f, r) == IF FileMissing(f) THEN r ELSE f

\* the better of the best vertex so far and the trial (Nelder-Mead keeps
\* the best vertex)
BestOf(b, x, f) == IF b = NoRecord \/ f < b.fun THEN [b EXCEPT !.x = x, !.fun = f] ELSE b

(***************************************************************************)
(* Persistence.  A calibration result is the record of its parameter       *)
(* vector x, its objective value fun and its status success.  A double is  *)
(* its bit pattern, a natural number, so equality is equality bit for bit. *)
(* pickle writes a stream of bytes: the opcodes EMPTY_LIST (93), BINFLOAT  *)
(* (71, followed by the pattern, most significant byte first), APPEND      *)
(* (97), NEWTRUE (136), NEWFALSE (137), STOP (46).  A file is its content; *)
(* the empty content stands for no file.                                   *)
(***************************************************************************)
MaxLen == 2

MaxBits == 3

\* bit patterns that differ in both of their bytes
BitPatterns == {k * 129 : k \in 0..MaxBits}

Results == [x : UNION {[1..k -> BitPatterns] : k \in 0..MaxLen},
            fun : BitPatterns, success : BOOLEAN]

NoFile == <<>>

NoResult == [x |-> <<>>, fun |-> 0, success |-> FALSE]

\* the record an earlier run left in the file
EarlierResult == [x |-> <<258>>, fun |-> 129, success |-> TRUE]

EncodeFloat(v) == <<71, v \div 256, v % 256>>

RECURSIVE EncodeList(_)
EncodeList(xs) ==
    IF xs = <<>> THEN <<93>>
    ELSE EncodeList(SubSeq(xs, 1, Len(xs) - 1)) \o EncodeFloat(xs[Len(xs)]) \o <<97>>

pickle_dump(r) ==
    EncodeList(r.x) \o EncodeFloat(r.fun)
        \o <<IF r.success THEN 136 ELSE 137>> \o <<46>>

\* the items of a list: BINFLOAT hi lo APPEND, repeated; the result is the
\* list and the position after it
RECURSIVE DecodeItems(_, _, _)
DecodeItems(b, i, acc) ==
    IF i + 3 <= Len(b) /\ b[i] = 71 /\ b[i + 3] = 97
    THEN DecodeItems(b, i + 4, Append(acc, b[i + 1] * 256 + b[i + 2]))
    ELSE <<acc, i>>

pickle_load(b) ==
    LET items == DecodeItems(b, 2, <<>>)
        i == items[2]
    IN  [x |-> items[1], fun |-> b[i + 1] * 256 + b[i + 2], success |-> b[i + 3] = 136]

exists(f) == f # NoFile

\* A save that writes whether or not the file is there.
save_calibration_Overwrite(f, r) == [file |-> pickle_dump(r), ret |-> TRUE]

\* save_calibration_if_not_exists: the file afterwards and the value returned
save_calibration_if_not_exists(f, r) ==
    IF ~exists(f) THEN [file |-> pickle_dump(r), ret |-> TRUE]
    ELSE [file |-> f, ret |-> FALSE]

load_calibration(f) == pickle_load(f)

(***************************************************************************)
(* Model data.  data["calibrated"] maps every free parameter to its value  *)
(* and its bounds; here cal maps the keys present to their values, None    *)
(* for a value not set.  A dict is the sequence of its <<key, value>>      *)
(* items in insertion order.                                               *)
(***************************************************************************)
None == 0 - 1

\* the keys of data["calibrated"] in the order of lines 143-151
Schema ==
    <<"hat_c", "varphi", "beta_f", "Z_ArAh", "Z_MrMh", "Z_SrSh", "Z_ArSr", "Z_MrSr">>

ParameterNames == {Schema[i] : i \in DOMAIN Schema}

ProductivityNames == ParameterNames \ {"hat_c", "varphi", "beta_f"}

\* the lower bound of a free parameter in units of 1e-3 (lines 143-151)
LowerBound(k) == IF k = "hat_c" THEN 0 ELSE 1

MaxInit == 2

IsInjective(q) == \A i, j \in DOMAIN q : q[i] = q[j] => i = j

Reverse(q) == [i \in 1..Len(q) |-> q[Len(q) + 1 - i]]

\* key orders of the dicts a caller passes: short ones, and the complete
\* one in the order of the schema and in the reverse order
KeyOrders ==
    {q \in UNION {[1..k -> ParameterNames] : k \in 0..MaxInit} : IsInjective(q)}
        \cup {Schema, Reverse(Schema)}

\* the dict with these keys in this order; the i-th value is i
DictOf(q) == [i \in 1..Len(q) |-> <<q[i], i>>]

Dicts == {DictOf(q) : q \in KeyOrders}

\* the argument None of calibration_init
NoDict == <<<<"None", None>>>>

dict_keys(dict) == [i \in 1..Len(dict) |-> dict[i][1]]

dict_values(dict) == [i \in 1..Len(dict) |-> dict[i][2]]

Has(dict, k) == \E i \in 1..Len(dict) : dict[i][1] = k

Get(dict, k) == dict[CHOOSE i \in 1..Len(dict) : dict[i][1] = k][2]

\* zip(calibrated_parameters, y): as long as the shorter of the two
zip(ks, ys) ==
    [i \in 1..(IF Len(ks) < Len(ys) THEN Len(ks) ELSE Len(ys)) |-> <<ks[i], ys[i]>>]

\* A zip that pairs the vector with the keys of the schema in its order.
zip_Schema(ks, ys) ==
    [i \in 1..(IF Len(ks) < Len(ys) THEN Len(ks) ELSE Len(ys)) |->
        <<SelectSeq(Schema, LAMBDA k : \E j \in 1..Len(ks) : ks[j] = k)[i], ys[i]>>]

\* dict(zip(calibrated_parameters, y)) of line 1288
zip_parameters(ks, ys) == zip(ks, ys)

AllNone == [k \in ParameterNames |-> None]

\* make_model_data(income_group, calibration_init), lines 140-152 and
\* 226-229: the free values, or KeyError for a dict that lacks a key
make_model_data(init) ==
    IF init = NoDict \/ init = <<>> THEN [cal |-> AllNone, err |-> "none"]
    ELSE IF \A k \in ParameterNames : Has(init, k)
    THEN [cal |-> [k \in ParameterNames |-> Get(init, k)], err |-> "none"]
    ELSE [cal |-> AllNone, err |-> "KeyError"]

\* set_calibrated_data with a dict: data["calibrated"][k][0] = dict[k] for
\* the keys of the dict, KeyError for a key that data["calibrated"] lacks
set_calibrated_values(c, dict) ==
    IF \A i \in 1..Len(dict) : dict[i][1] \in DOMAIN c
    THEN [cal |-> [k \in DOMAIN c |-> IF Has(dict, k) THEN Get(dict, k) ELSE c[k]],
          err |-> "none"]
    ELSE [cal |-> c, err |-> "KeyError"]

\* get_calibration_bounds(data, keys)
get_calibration_bounds(c, ks) == [i \in 1..Len(ks) |-> LowerBound(ks[i])]

\* the hooks entry of the model data: none, or the set of hooks installed
NoHooks == {"no entry"}

\* the subsistence term as the model functions read it (lines 687, 722):
\* model_data["calibrated"]["hat_c"][0]
ReadSubsistence(c, hk) ==
    IF "hat_c" \in DOMAIN c THEN [value |-> c["hat_c"], err |-> "none"]
    ELSE [value |-> None, err |-> "KeyError"]

\* One evaluation of F(y).  The relative productivities are used first
\* (the labor ratios), then the subsistence term is read, then varphi and
\* hat_c enter the arithmetic, then beta_f (the schooling conditions).
EvaluateFoc(c, hk) ==
    IF \E k \in ProductivityNames : c[k] = None THEN "TypeError"
    ELSE IF ReadSubsistence(c, hk).err # "none" THEN ReadSubsistence(c, hk).err
    ELSE IF \E k \in DOMAIN c : c[k] = None THEN "TypeError"
    ELSE "none"

(***************************************************************************)
(* Time allocation at a point (tw, sf, sm).  The point enters through the  *)
(* values there of the closed forms (the relative consumption expenditure  *)
(* of every calibrated pair), of pow(tw, eta - 1) in the wage bills, and   *)
(* of the factor d(sf) / d(0) * delta(0) / delta(sf) of the labor ratios.  *)
(* The scale varphi * (1 - subsistence share) of leisure is 1.  Values are *)
(* exact rationals; a control, 1 / R, is kept in units of 1e-4.            *)
(***************************************************************************)
TimeValues == {<<1, 2>>, RatOne, <<2, 1>>}

Valuations == [DefaultKeys -> TimeValues]

RECURSIVE RatPow(_, _)
RatPow(x, k) ==
    IF k = 0 THEN RatOne
    ELSE IF k < 0 THEN RatPow(RatInv(x), 0 - k)
    ELSE RatMul(x, RatPow(x, k - 1))

\* the sum of fn over S
RECURSIVE RatSum(_, _)
RatSum(S, fn) ==
    IF S = {} THEN <<0, 1>>
    ELSE LET a == CHOOSE b \in S : TRUE IN RatAdd(fn[a], RatSum(S \ {a}, fn))

\* the value of a monomial where the atoms have the values av
RECURSIVE EvalMonomial(_, _, _)
EvalMonomial(S, e, av) ==
    IF S = {} THEN RatOne
    ELSE LET a == CHOOSE b \in S : TRUE
         IN  RatMul(RatPow(av[a], e[a]), EvalMonomial(S \ {a}, e, av))

\* the function make_relative_expenditure builds for every pair of flow
\* indices under the default keys
ExpenditureTable ==
    [p \in FlowIndices \X FlowIndices |->
        CHOOSE e \in {f.exp : f \in make_relative_expenditure(DefaultKeys, p[1], p[2])} :
            TRUE]

ProductionPairs == ProductionIndices \X ProductionIndices

\* a table of values: the function with every value computed once
Table(fn) == fn @@ <<>>

\* make_relative_consumption_expenditure(model_data, ov, un)(tw, sf, sm) for
\* every pair of production indices
ConsumptionExpenditures(val) ==
    Table([p \in ProductionPairs |-> EvalMonomial(DefaultKeys, ExpenditureTable[p], val)])

\* make_sectoral_expenditure_share_of_consumption(model_data, sector)(tw, sf, sm)
make_sectoral_expenditure_share_of_consumption(C, sector) ==
    LET Ejmjhv == C[<<Idx(sector, "r"), Idx(sector, "h")>>]
        A == RatMul(Ejmjhv, RatInv(RatAdd(RatOne, Ejmjhv)))
        term == [s \in sectors |->
                    RatMul(RatMul(A, RatAdd(RatOne, C[<<Idx(s, "r"), Idx(s, "h")>>])),
                           RatInv(C[<<Idx(sector, "r"), Idx(s, "h")>>]))]
    IN  RatInv(RatSum(sectors, term))

\* E_lj of make_relative_expenditure for a modern index:
\* varphi * nsubsh / Ej * (1 + Eihim)
E_lj(C, un) ==
    RatMul(RatInv(make_sectoral_expenditure_share_of_consumption(C, SectorOf(un))),
           RatAdd(RatOne, C[<<OtherTechnology(un), un>>]))

\* make_relative_expenditure(model_data, ov, un)(tw, sf, sm) for every pair
\* of flow indices
Expenditures(C, val) ==
    LET av == Table([a \in Atoms |-> IF a \in LeisureAtoms THEN E_lj(C, a[2]) ELSE val[a]])
    IN  Table([p \in FlowIndices \X FlowIndices |->
                  EvalMonomial(Atoms, ExpenditureTable[p], av)])

\* the wage bill of a gender at the point
WageBillAt(g, i, tw) ==
    IF g = "f" THEN make_female_wage_bill(i, tw, RatOne)
    ELSE make_male_wage_bill(i, tw, RatOne)

ModernExponent(i) == IF EndsWithR(i) THEN 1 ELSE 0

\* make_female_flow_time_allocation_ratio / make_female_labor_ratio and
\* their male counterparts at the point
flow_time_allocation_ratio(g, E, tw, dd, ov, un) ==
    RatMul(RatMul(E[<<ov, un>>],
                  RatMul(WageBillAt(g, ov, tw), RatInv(WageBillAt(g, un, tw)))),
           RatPow(dd, ModernExponent(ov) - ModernExponent(un)))

\* make_aggregate_female_flow_time_allocation_ratio (and male): the sum over
\* the six production indices plus the leisure ratio, for every index
aggregate_flow_time_allocation_ratio(g, E, tw, dd) ==
    Table([i \in FlowIndices |->
        RatAdd(RatSum(ProductionIndices,
                      Table([j \in ProductionIndices |->
                                flow_time_allocation_ratio(g, E, tw, dd, j, i)])),
               flow_time_allocation_ratio(g, E, tw, dd, "l", i))])

\* make_female_time_allocation_control (and male): L / R with L = 1.0, in
\* units of 1e-4, rounded down
time_allocation_control(R, i) == (10000 * R[i][2]) \div R[i][1]

RECURSIVE IntSum(_, _)
IntSum(S, fn) ==
    IF S = {} THEN 0
    ELSE LET a == CHOOSE b \in S : TRUE IN fn[a] + IntSum(S \ {a}, fn)

\* make_female_total_time_allocation / make_male_total_time_allocation
total_time_allocation(R) ==
    IntSum(FlowIndices, [i \in FlowIndices |-> time_allocation_control(R, i)])

(***************************************************************************)
(* Calibration setups.  A setup identifier is the tuple of its parts       *)
(* ("abs-schooling-no-wages" is <<"abs-schooling", "no-wages">>).  The     *)
(* value a table maps it to is None or a hook, kept as the sequence of the *)
(* primitive functions the hook calls, in calling order.  Of the data the  *)
(* hooks work on the model keeps what they touch: whether hat_c is among   *)
(* the calibrated parameters, whether the zero hook is installed, the      *)
(* names of the targets, the weights and the origin of the xi shares.      *)
(***************************************************************************)
TargetNames == {"Lf_l", "sf", "sm", "tw", "gamma"}

WeightNames == {"sf", "sm", "tw", "gamma"}

MaxWeight == 2

MaxValue == 2

InitialData(w) ==
    [hat_c |-> TRUE, hook |-> FALSE, targets |-> TargetNames, weights |-> w, xi |-> "data"]

remove_income(d) == [d EXCEPT !.hat_c = FALSE, !.hook = TRUE]

remove_wages(d) == [d EXCEPT !.targets = @ \ {"tw"}]

set_income_weight(d) == [d EXCEPT !.weights["gamma"] = 100]

set_schooling_weight(d) == [d EXCEPT !.weights["sf"] = 1, !.weights["sm"] = 1]

set_wages_weight(d) == [d EXCEPT !.weights["tw"] = 100]

prepare_no_schooling(d) == [d EXCEPT !.targets = @ \ {"sf", "sm"}]

set_no_modern_service_share_heterogeneity(d) == [d EXCEPT !.xi = "xi_Sr = 0.5"]

set_low_income_shares(d) == [d EXCEPT !.xi = "low income shares"]

\* the call of one primitive function
Call(p, d) ==
    CASE p = "_remove_income" -> remove_income(d)
      [] p = "_remove_wages" -> remove_wages(d)
      [] p = "_set_income_weight" -> set_income_weight(d)
      [] p = "_set_schooling_weight" -> set_schooling_weight(d)
      [] p = "_set_wages_weight" -> set_wages_weight(d)
      [] p = "_prepare_no_schooling" -> prepare_no_schooling(d)
      [] p = "_set_no_modern_service_share_heterogeneity" ->
             set_no_modern_service_share_heterogeneity(d)
      [] p = "_set_low_income_shares" -> set_low_income_shares(d)

\* callback(model_data) for a hook
RECURSIVE Compose(_, _)
Compose(cb, d) == IF cb = <<>> THEN d ELSE Compose(Tail(cb), Call(Head(cb), d))

NoCallable == "None"

Schoolings == {"abs-schooling", "no-schooling", "rel-schooling"}

Modes ==
    {<<s>> \o x : s \in Schoolings,
                  x \in {<<>>, <<"no-subsistence">>, <<"no-subsistence", "no-wages">>,
                         <<"no-subsistence", "scl-wages">>, <<"no-wages">>,
                         <<"scl-wages">>, <<"scl-wages", "scl-income">>}}

\* calibration_mode.mapping()
mapping ==
    [m \in Modes |->
        CASE m = <<"abs-schooling">> -> <<"_set_schooling_weight">>
          [] m = <<"abs-schooling", "no-subsistence">> -> <<"_remove_income">>
          [] m = <<"abs-schooling", "no-subsistence", "no-wages">> ->
                 <<"_remove_income", "_remove_wages">>
          [] m = <<"abs-schooling", "no-subsistence", "scl-wages">> ->
                 <<"_remove_income", "_set_wages_weight">>
          [] m = <<"abs-schooling", "no-wages">> ->
                 <<"_set_schooling_weight", "_remove_wages">>
          [] m = <<"abs-schooling", "scl-wages">> ->
                 <<"_set_schooling_weight", "_set_wages_weight">>
          [] m = <<"abs-schooling", "scl-wages", "scl-income">> ->
                 <<"_set_schooling_weight", "_set_wages_weight", "_set_income_weight">>
          [] m = <<"no-schooling">> -> <<"_prepare_no_schooling">>
          [] m = <<"no-schooling", "no-subsistence">> ->
                 <<"_prepare_no_schooling", "_remove_income">>
          [] m = <<"no-schooling", "no-subsistence", "no-wages">> ->
                 <<"_prepare_no_schooling", "_remove_income", "_remove_wages">>
          [] m = <<"no-schooling", "no-subsistence", "scl-wages">> ->
                 <<"_prepare_no_schooling", "_remove_income", "_set_wages_weight">>
          [] m = <<"no-schooling", "no-wages">> ->
                 <<"_prepare_no_schooling", "_remove_wages">>
          [] m = <<"no-schooling", "scl-wages">> ->
                 <<"_prepare_no_schooling", "_set_wages_weight">>
          [] m = <<"no-schooling", "scl-wages", "scl-income">> ->
                 <<"_prepare_no_schooling", "_set_wages_weight", "_set_income_weight">>
          [] m = <<"rel-schooling">> -> NoCallable
          [] m = <<"rel-schooling", "no-subsistence">> -> <<"_remove_income">>
          [] m = <<"rel-schooling", "no-subsistence", "no-wages">> ->
                 <<"_remove_income", "_remove_wages">>
          [] m = <<"rel-schooling", "no-subsistence", "scl-wages">> ->
                 <<"_remove_income", "_set_wages_weight">>
          [] m = <<"rel-schooling", "no-wages">> -> <<"_remove_wages">>
          [] m = <<"rel-schooling", "scl-wages">> -> <<"_set_wages_weight">>
          [] m = <<"rel-schooling", "scl-wages", "scl-income">> ->
                 <<"_set_wages_weight", "_set_income_weight">>]

\* calibration_traits.setups(): line for line the table of calibration_mode
setups == mapping

Setups2 ==
    {<<s>> \o x : s \in Schoolings,
                  x \in {<<>>, <<"no-modern-service-share-heterogeneity">>,
                         <<"no-subsistence">>, <<"no-subsistence", "no-wages">>,
                         <<"no-subsistence", "scl-wages">>, <<"no-wages">>,
                         <<"scl-subsistence", "scl-wages">>, <<"scl-wages">>,
                         <<"with-low-income-shares">>}}

\* what _prepare_<schooling> of src/src/calibration_traits.py calls
SchoolingHook(s) ==
    IF s = "abs-schooling" THEN <<"_set_schooling_weight">>
    ELSE IF s = "no-schooling" THEN <<"_prepare_no_schooling">>
    ELSE <<>>

\* setups() of src/src/calibration_traits.py; _remove_subsistence and
\* _set_subsistence_weight there are _remove_income and _set_income_weight
setups_src ==
    [m \in Setups2 |->
        SchoolingHook(m[1]) \o
        (CASE Tail(m) = <<>> -> <<>>
           [] Tail(m) = <<"no-modern-service-share-heterogeneity">> ->
                  <<"_set_no_modern_service_share_heterogeneity">>
           [] Tail(m) = <<"no-subsistence">> -> <<"_remove_income">>
           [] Tail(m) = <<"no-subsistence", "no-wages">> ->
                  <<"_remove_income", "_remove_wages">>
           [] Tail(m) = <<"no-subsistence", "scl-wages">> ->
                  <<"_remove_income", "_set_wages_weight">>
           [] Tail(m) = <<"no-wages">> -> <<"_remove_wages">>
           [] Tail(m) = <<"scl-subsistence", "scl-wages">> ->
                  <<"_set_wages_weight", "_set_income_weight">>
           [] Tail(m) = <<"scl-wages">> -> <<"_set_wages_weight">>
           [] Tail(m) = <<"with-low-income-shares">> -> <<"_set_low_income_shares">>)]

Tables ==
    {"calibration_mode.mapping", "calibration_traits.setups",
     "src/calibration_traits.setups"}

TableOf(t) ==
    IF t = "calibration_mode.mapping" THEN mapping
    ELSE IF t = "calibration_traits.setups" THEN setups
    ELSE setups_src

\* target() of make_schooling_target, make_wage_ratio_target and
\* make_subsistence_share_target: the data value v times the weight
Target(t, k, d, v) == v * d.weights[k]

\* prediction(d, tw, sf, sm) of the same: the predicted value p times a weight
Prediction(t, k, d, p) ==
    p * d.weights[IF k = "gamma" /\ t # "src/calibration_traits.setups" THEN "tw" ELSE k]

\* np.abs(target - prediction)
TargetError(t, k, d, v, p) ==
    LET e == Target(t, k, d, v) - Prediction(t, k, d, p) IN IF e < 0 THEN 0 - e ELSE e

(***************************************************************************)
(* Resolver: the inputs are drawn in the initial state, the actions build  *)
(* E(over, under), E(under, over) and, for production indices, the         *)
(* consumption expenditure.                                                *)
(***************************************************************************)
IdleResolver ==
    /\ keys = DefaultKeys /\ over = "l" /\ under = "l"
    /\ Efwd = NoFn /\ Erev = NoFn /\ Ecns = NoFn /\ rpc = "idle"

IdleWage ==
    /\ wIdx = "l" /\ wTw = RatOne /\ wAdj = RatOne
    /\ wIf = <<0, 1>> /\ wIm = <<0, 1>> /\ wpc = "idle"

IdleJacobian == jProf = AllNaN /\ jRes = NoJacobian /\ jpc = "idle"

IdleSolver ==
    /\ pc = "idle" /\ n = 0 /\ converged = FALSE /\ y = NoPoint /\ yn = NoPoint
    /\ Flen = NaN /\ alam = lambda /\ stepped = FALSE /\ warned = FALSE
    /\ result = NoPoint /\ err = "none"

IdleCalibration ==
    /\ cpc = "idle" /\ adaptive = FALSE /\ file = NoRecord /\ calibrated = 0
    /\ x0 = 0 /\ min_sae = InitMinSae /\ trials = 0 /\ best = NoRecord
    /\ calRes = NoRecord /\ cerr = "none"
    /\ existed = FALSE /\ seen = {}

IdlePersist ==
    /\ pRec = NoResult /\ pFile = NoFile /\ pOld = NoFile /\ pRet = FALSE
    /\ pLoaded = NoResult /\ ppc = "idle"

IdleData ==
    /\ dpc = "idle" /\ cal = AllNone /\ hooks = NoHooks /\ calibration_init = NoDict
    /\ initializers = <<>> /\ calibrated_parameters = <<>> /\ bounds = <<>>
    /\ xinit = <<>> /\ yvec = <<>> /\ hookDone = FALSE /\ derr = "none"

IdleTime ==
    /\ tVal = [a \in DefaultKeys |-> RatOne] /\ tTw = RatOne /\ tD = RatOne
    /\ tC = <<>> /\ tE = <<>> /\ tR = <<>> /\ tLf = 0 /\ tLm = 0 /\ tpc = "idle"

IdleSchooling ==
    /\ gKeys = DefaultKeys /\ gIndex = "Sh" /\ gGender = "female" /\ gOther = "none"
    /\ gE = NoFn /\ gVal = 0 /\ gFactor = <<0, 1>> /\ gpc = "idle"

IdleSetup ==
    /\ hTable = "none" /\ hMode = <<>> /\ hCallback = "unset"
    /\ hData0 = <<>> /\ hData = <<>> /\ hTarget = "none" /\ hDataVal = 0 /\ hPredVal = 0
    /\ hError = 0 - 1 /\ hErr = "none" /\ hpc = "idle"

InitResolver ==
    /\ keys \in KeySets /\ over \in FlowIndices /\ under \in FlowIndices
    /\ Efwd = NoFn /\ Erev = NoFn /\ Ecns = NoFn /\ rpc = "init"
    /\ IdleWage /\ IdleJacobian /\ IdleSolver /\ IdleCalibration /\ IdlePersist /\ IdleData /\ IdleTime /\ IdleSetup /\ IdleSchooling

BuildExpenditure ==
    /\ rpc = "init"
    /\ \E e \in make_relative_expenditure(keys, over, under) : Efwd' = e
    /\ rpc' = "fwd"
    /\ UNCHANGED <<pvars, dvars, tvars, hvars, gvars>>
    /\ UNCHANGED <<keys, over, under, Erev, Ecns, wvars, jvars, svars, cvars>>

BuildReverse ==
    /\ rpc = "fwd"
    /\ \E e \in make_relative_expenditure(keys, under, over) : Erev' = e
    /\ rpc' = "both"
    /\ UNCHANGED <<pvars, dvars, tvars, hvars, gvars>>
    /\ UNCHANGED <<keys, over, under, Efwd, Ecns, wvars, jvars, svars, cvars>>

BuildConsumption ==
    /\ rpc = "both"
    /\ over \in ProductionIndices /\ under \in ProductionIndices
    /\ \E e \in make_relative_consumption_expenditure(keys, over, under) : Ecns' = e
    /\ rpc' = "all"
    /\ UNCHANGED <<pvars, dvars, tvars, hvars, gvars>>
    /\ UNCHANGED <<keys, over, under, Efwd, Erev, wvars, jvars, svars, cvars>>

NextResolver == BuildExpenditure \/ BuildReverse \/ BuildConsumption

SpecResolver == InitResolver /\ [][NextResolver]_vars

(***************************************************************************)
(* Wage bills: index and point drawn in the initial state.                 *)
(***************************************************************************)
InitWage ==
    /\ wIdx \in FlowIndices /\ wTw \in PowValues /\ wAdj \in PowValues
    /\ wIf = <<0, 1>> /\ wIm = <<0, 1>> /\ wpc = "init"
    /\ IdleResolver /\ IdleJacobian /\ IdleSolver /\ IdleCalibration /\ IdlePersist /\ IdleData /\ IdleTime /\ IdleSetup /\ IdleSchooling

EvalFemaleWageBill ==
    /\ wpc = "init"
    /\ wIf' = make_female_wage_bill(wIdx, wTw, wAdj)
    /\ wpc' = "female"
    /\ UNCHANGED <<pvars, dvars, tvars, hvars, gvars>>
    /\ UNCHANGED <<wIdx, wTw, wAdj, wIm, rvars, jvars, svars, cvars>>

EvalMaleWageBill ==
    /\ wpc = "female"
    /\ wIm' = make_male_wage_bill(wIdx, wTw, wAdj)
    /\ wpc' = "both"
    /\ UNCHANGED <<pvars, dvars, tvars, hvars, gvars>>
    /\ UNCHANGED <<wIdx, wTw, wAdj, wIf, rvars, jvars, svars, cvars>>

NextWage == EvalFemaleWageBill \/ EvalMaleWageBill

SpecWage == InitWage /\ [][NextWage]_vars

(***************************************************************************)
(* Jacobian: the behaviour of F around y is drawn in the initial state.    *)
(***************************************************************************)
InitJacobian ==
    /\ jProf \in JacProfiles /\ jRes = NoJacobian /\ jpc = "init"
    /\ IdleResolver /\ IdleWage /\ IdleSolver /\ IdleCalibration /\ IdlePersist /\ IdleData /\ IdleTime /\ IdleSetup /\ IdleSchooling

JacobianCall ==
    /\ jpc = "init"
    /\ jRes' = jacobian(jProf)
    /\ jpc' = "done"
    /\ UNCHANGED <<pvars, dvars, tvars, hvars, gvars>>
    /\ UNCHANGED <<jProf, rvars, wvars, svars, cvars>>

NextJacobian == JacobianCall

SpecJacobian == InitJacobian /\ [][NextJacobian]_vars

(***************************************************************************)
(* solve_foc.  The initial state is the one before the first test of the   *)
(* outer loop (lines 1222-1232): yn is a copy of the caller's guess.       *)
(***************************************************************************)
InitSolver ==
    /\ pc = "loop" /\ n = 0 /\ converged = FALSE
    /\ yn \in GuessPoints /\ y = yn
    /\ Flen = NaN /\ alam = lambda /\ stepped = FALSE /\ warned = FALSE
    /\ result = NoPoint /\ err = "none"
    /\ IdleResolver /\ IdleWage /\ IdleJacobian /\ IdleCalibration /\ IdlePersist /\ IdleData /\ IdleTime /\ IdleSetup /\ IdleSchooling

\* lines 1233-1244: the current iterate, F, J, the inverse, the direction
OuterEval ==
    /\ pc = "loop" /\ OuterGuard(n, converged)
    /\ y' = yn
    /\ IF yn.F # "value"
       THEN pc' = "failed" /\ err' = yn.F /\ UNCHANGED <<Flen, alam, stepped>>
       ELSE IF yn.J # "ok"
       THEN pc' = "failed" /\ err' = yn.J /\ UNCHANGED <<Flen, alam, stepped>>
       ELSE IF yn.sing
       THEN pc' = "failed" /\ err' = "LinAlgError" /\ UNCHANGED <<Flen, alam, stepped>>
       ELSE /\ pc' = "backtrack" /\ Flen' = yn.norm
            /\ alam' = TenTimes(lambda) /\ stepped' = FALSE /\ UNCHANGED err
    /\ UNCHANGED <<pvars, dvars, tvars, hvars, gvars>>
    /\ UNCHANGED <<n, converged, yn, warned, result, rvars, wvars, jvars, cvars>>

\* lines 1245-1255: one pass of the backtracking loop
TryCandidate ==
    /\ pc = "backtrack" /\ BacktrackGuard(stepped, alam)
    /\ alam' = NextAlam(alam)
    /\ yn' \in CandidatePoints[Flen]
    /\ IF yn'.F = "ZeroDivisionError"
       THEN pc' = "failed" /\ err' = "ZeroDivisionError" /\ UNCHANGED stepped
       ELSE stepped' = Accepted(yn', Flen) /\ UNCHANGED <<pc, err>>
    /\ UNCHANGED <<pvars, dvars, tvars, hvars, gvars>>
    /\ UNCHANGED <<n, converged, y, Flen, warned, result, rvars, wvars, jvars, cvars>>

\* A failure to step that only ends the loop: the warning is printed and
\* the iterate y is returned.
StepFailed_Break ==
    /\ pc = "backtrack" /\ ~BacktrackGuard(stepped, alam) /\ ~stepped
    /\ pc' = "done" /\ warned' = TRUE /\ result' = y
    /\ UNCHANGED <<pvars, dvars, tvars, hvars, gvars>>
    /\ UNCHANGED <<n, converged, y, yn, Flen, alam, stepped, err,
                   rvars, wvars, jvars, cvars>>

\* lines 1256-1259
StepFailed ==
    /\ pc = "backtrack" /\ ~BacktrackGuard(stepped, alam) /\ ~stepped
    /\ pc' = "failed" /\ err' = "ValueError:step"
    /\ UNCHANGED <<pvars, dvars, tvars, hvars, gvars>>
    /\ UNCHANGED <<n, converged, y, yn, Flen, alam, stepped, warned, result,
                   rvars, wvars, jvars, cvars>>

\* lines 1261-1263; hlen = |yn - y| is below htol or not
StepAccepted ==
    /\ pc = "backtrack" /\ ~BacktrackGuard(stepped, alam) /\ stepped
    /\ n' = n + 1
    /\ \E hsmall \in BOOLEAN : converged' = (NormLeq(Flen, Ftol) \/ hsmall)
    /\ pc' = "loop"
    /\ UNCHANGED <<pvars, dvars, tvars, hvars, gvars>>
    /\ UNCHANGED <<y, yn, Flen, alam, stepped, warned, result, err,
                   rvars, wvars, jvars, cvars>>

\* lines 1269-1273
Return ==
    /\ pc = "loop" /\ ~OuterGuard(n, converged)
    /\ warned' = ~converged
    /\ pc' = ExitStatus(converged)
    /\ result' = (IF ExitStatus(converged) = "done" THEN y ELSE NoPoint)
    /\ err' = (IF ExitStatus(converged) = "done" THEN "none" ELSE "Exception")
    /\ UNCHANGED <<pvars, dvars, tvars, hvars, gvars>>
    /\ UNCHANGED <<n, converged, y, yn, Flen, alam, stepped, rvars, wvars, jvars, cvars>>

NextSolver == OuterEval \/ TryCandidate \/ StepFailed \/ StepAccepted \/ Return

SpecSolver == InitSolver /\ [][NextSolver]_vars

\* the interpreter keeps running the call until it returns or raises
SpecSolverFair == SpecSolver /\ WF_vars(NextSolver)

(***************************************************************************)
(* calibrate_if_not_exists_and_save.  The initial state is the one after   *)
(* lines 1359-1374: the model data hold the initializers, errors() is      *)
(* built, and the result file exists or not.                               *)
(***************************************************************************)
InitCalibration ==
    /\ cpc = "start" /\ adaptive \in BOOLEAN /\ file \in {NoRecord, OldRecord}
    /\ calibrated = 0 /\ x0 = 0 /\ min_sae = InitMinSae /\ trials = 0
    /\ best = NoRecord /\ calRes = NoRecord /\ cerr = "none"
    /\ existed = (file # NoRecord) /\ seen = {}
    /\ IdleResolver /\ IdleWage /\ IdleJacobian /\ IdleSolver /\ IdlePersist /\ IdleData /\ IdleTime /\ IdleSetup /\ IdleSchooling

\* line 1375, no file: minimize() starts
StartMinimize ==
    /\ cpc = "start" /\ FileMissing(file)
    /\ cpc' = "optimizing"
    /\ UNCHANGED <<pvars, dvars, tvars, hvars, gvars>>
    /\ UNCHANGED <<adaptive, file, calibrated, x0, min_sae, trials, best, calRes,
                   cerr, existed, seen, rvars, wvars, jvars, svars>>

\* lines 1384-1385: the file exists
LoadExisting ==
    /\ cpc = "start" /\ ~FileMissing(file)
    /\ calRes' = file /\ cpc' = "returned"
    /\ UNCHANGED <<pvars, dvars, tvars, hvars, gvars>>
    /\ UNCHANGED <<adaptive, file, calibrated, x0, min_sae, trials, best, cerr,
                   existed, seen, rvars, wvars, jvars, svars>>

\* one objective evaluation sum(errors(x)) whose Newton solve returns y = sol
\* with a sum of absolute errors sae (lines 1285-1325)
TrialSolved ==
    /\ cpc = "optimizing" /\ trials < MaxTrials
    /\ \E x \in (IF trials = 0 THEN {0} ELSE 0..MaxParam),
          sol \in 1..MaxSol, sae \in SaeValues :
        /\ calibrated' = set_calibrated_data(calibrated, x)
        /\ min_sae' = (IF sae < min_sae THEN sae ELSE min_sae)
        /\ x0' = (IF sae < min_sae /\ adaptive THEN sol ELSE x0)
        /\ best' = BestOf(best, x, sae)
        /\ seen' = seen \cup {<<sol, sae>>}
    /\ trials' = trials + 1
    /\ UNCHANGED <<pvars, dvars, tvars, hvars, gvars>>
    /\ UNCHANGED <<cpc, adaptive, file, calRes, cerr, existed, rvars, wvars, jvars,
                   svars>>

\* one objective evaluation whose Newton solve raises (line 1292)
TrialRaised ==
    /\ cpc = "optimizing" /\ trials < MaxTrials
    /\ \E x \in (IF trials = 0 THEN {0} ELSE 0..MaxParam), e \in SolveErrors :
        /\ calibrated' = set_calibrated_data(calibrated, x)
        /\ cerr' = e
        /\ cpc' = OnTrialError(e)
    /\ trials' = trials + 1
    /\ UNCHANGED <<pvars, dvars, tvars, hvars, gvars>>
    /\ UNCHANGED <<adaptive, file, x0, min_sae, best, calRes, existed, seen,
                   rvars, wvars, jvars, svars>>

\* minimize() returns; lines 1383 and 1387
FinishAndSave ==
    /\ cpc = "optimizing" /\ trials > 0
    /\ \E ok \in BOOLEAN : calRes' = [best EXCEPT !.success = ok]
    /\ file' = FileAfterSave(file, calRes')
    /\ cpc' = "returned"
    /\ UNCHANGED <<pvars, dvars, tvars, hvars, gvars>>
    /\ UNCHANGED <<adaptive, calibrated, x0, min_sae, trials, best, cerr,
                   existed, seen, rvars, wvars, jvars, svars>>

NextCalibration ==
    StartMinimize \/ LoadExisting \/ TrialSolved \/ TrialRaised \/ FinishAndSave

SpecCalibration == InitCalibration /\ [][NextCalibration]_vars

(***************************************************************************)
(* Persistence: a result and a file, absent or left by an earlier run; the *)
(* result is saved and the file is loaded.                                 *)
(***************************************************************************)
InitPersist ==
    /\ pRec \in Results /\ pFile \in {NoFile, pickle_dump(EarlierResult)}
    /\ pOld = pFile /\ pRet = FALSE /\ pLoaded = NoResult /\ ppc = "init"
    /\ IdleResolver /\ IdleWage /\ IdleJacobian /\ IdleSolver /\ IdleCalibration
    /\ IdleData /\ IdleTime /\ IdleSetup /\ IdleSchooling

Save ==
    /\ ppc = "init"
    /\ pFile' = save_calibration_if_not_exists(pFile, pRec).file
    /\ pRet' = save_calibration_if_not_exists(pFile, pRec).ret
    /\ ppc' = "saved"
    /\ UNCHANGED <<pRec, pOld, pLoaded, rvars, wvars, jvars, svars, cvars, dvars, tvars, hvars, gvars>>

Load ==
    /\ ppc = "saved"
    /\ pLoaded' = load_calibration(pFile)
    /\ ppc' = "loaded"
    /\ UNCHANGED <<pRec, pFile, pOld, pRet, rvars, wvars, jvars, svars, cvars,
                   dvars, tvars, hvars, gvars>>

NextPersist == Save \/ Load

SpecPersist == InitPersist /\ [][NextPersist]_vars

(***************************************************************************)
(* Model data: construction, the no-subsistence setup hook, the start of a *)
(* calibration (lines 1360-1378), one trial (lines 1287-1292) and one      *)
(* evaluation of F.                                                        *)
(***************************************************************************)
InitData ==
    /\ dpc = "new" /\ cal = AllNone /\ hooks \in {NoHooks, {}}
    /\ calibration_init \in {NoDict, <<>>, DictOf(Schema), DictOf(<<"hat_c", "varphi">>)}
    /\ initializers \in Dicts
    /\ calibrated_parameters = <<>> /\ bounds = <<>> /\ xinit = <<>> /\ yvec = <<>>
    /\ hookDone = FALSE /\ derr = "none"
    /\ IdleResolver /\ IdleWage /\ IdleJacobian /\ IdleSolver /\ IdleCalibration
    /\ IdlePersist /\ IdleTime /\ IdleSetup /\ IdleSchooling

\* make_model_data(income_group, calibration_init)
MakeModelData ==
    /\ dpc = "new"
    /\ cal' = make_model_data(calibration_init).cal
    /\ derr' = make_model_data(calibration_init).err
    /\ dpc' = (IF make_model_data(calibration_init).err = "none" THEN "data" ELSE "raised")
    /\ UNCHANGED <<hooks, calibration_init, initializers, calibrated_parameters,
                   bounds, xinit, yvec, hookDone, rvars, wvars, jvars, svars, cvars,
                   pvars, tvars, hvars, gvars>>

\* _remove_income(model_data): del model_data["calibrated"]["hat_c"], then
\* model_data["hooks"]["hat_c"] = lambda x: 0
ApplyHook ==
    /\ dpc = "data" /\ ~hookDone /\ "hat_c" \in DOMAIN cal
    /\ cal' = [k \in DOMAIN cal \ {"hat_c"} |-> cal[k]]
    /\ hookDone' = TRUE
    /\ IF hooks = NoHooks
       THEN dpc' = "raised" /\ derr' = "KeyError" /\ UNCHANGED hooks
       ELSE hooks' = hooks \cup {"hat_c"} /\ UNCHANGED <<dpc, derr>>
    /\ UNCHANGED <<calibration_init, initializers, calibrated_parameters, bounds,
                   xinit, yvec, rvars, wvars, jvars, svars, cvars, pvars,
                   tvars, hvars, gvars>>

\* lines 1360-1378: set_calibrated_data(model_data, initializers),
\* make_calibration(model_data, initializers.keys()), get_calibration_bounds,
\* the initial vector of minimize
StartCalibration ==
    /\ dpc = "data" /\ calibrated_parameters = <<>> /\ initializers # <<>>
    /\ cal' = set_calibrated_values(cal, initializers).cal
    /\ IF set_calibrated_values(cal, initializers).err # "none"
       THEN /\ dpc' = "raised" /\ derr' = set_calibrated_values(cal, initializers).err
            /\ UNCHANGED <<calibrated_parameters, bounds, xinit>>
       ELSE /\ calibrated_parameters' = dict_keys(initializers)
            /\ bounds' = get_calibration_bounds(cal', dict_keys(initializers))
            /\ xinit' = dict_values(initializers)
            /\ UNCHANGED <<dpc, derr>>
    /\ UNCHANGED <<hooks, calibration_init, initializers, yvec, hookDone,
                   rvars, wvars, jvars, svars, cvars, pvars,
                   tvars, hvars, gvars>>

\* errors(y), lines 1287-1292: the trial vector is written into the model
\* data and F is evaluated by solve_foc; the i-th component of the trial
\* vector is 10 + i
Trial ==
    /\ dpc = "data" /\ calibrated_parameters # <<>> /\ yvec = <<>>
    /\ yvec' = [i \in 1..Len(xinit) |-> 10 + i]
    /\ cal' = set_calibrated_values(cal, zip_parameters(calibrated_parameters, yvec')).cal
    /\ LET e == set_calibrated_values(cal, zip_parameters(calibrated_parameters, yvec')).err
       IN  IF e # "none" THEN dpc' = "raised" /\ derr' = e
           ELSE /\ derr' = EvaluateFoc(cal', hooks)
                /\ dpc' = (IF derr' = "none" THEN "evaluated" ELSE "raised in F")
    /\ UNCHANGED <<hooks, calibration_init, initializers, calibrated_parameters,
                   bounds, xinit, hookDone, rvars, wvars, jvars, svars, cvars, pvars,
                   tvars, hvars, gvars>>

\* make_foc(model_data) and one F(y) outside a calibration
Evaluate ==
    /\ dpc = "data" /\ calibrated_parameters = <<>>
    /\ derr' = EvaluateFoc(cal, hooks)
    /\ dpc' = (IF derr' = "none" THEN "evaluated" ELSE "raised in F")
    /\ UNCHANGED <<cal, hooks, calibration_init, initializers, calibrated_parameters,
                   bounds, xinit, yvec, hookDone, rvars, wvars, jvars, svars, cvars,
                   pvars, tvars, hvars, gvars>>

NextData == MakeModelData \/ ApplyHook \/ StartCalibration \/ Trial \/ Evaluate

SpecData == InitData /\ [][NextData]_vars

(***************************************************************************)
(* Time allocation: the point is drawn in the initial state, the actions   *)
(* evaluate the two totals as F does (lines 1160-1161).                    *)
(***************************************************************************)
InitTime ==
    /\ tVal \in Valuations /\ tTw \in {RatOne, <<2, 1>>} /\ tD \in {RatOne, <<2, 1>>}
    /\ tC = <<>> /\ tE = <<>> /\ tR = <<>> /\ tLf = 0 /\ tLm = 0 /\ tpc = "init"
    /\ IdleResolver /\ IdleWage /\ IdleJacobian /\ IdleSolver /\ IdleCalibration
    /\ IdlePersist /\ IdleData /\ IdleSetup /\ IdleSchooling

\* Lf(tw, sf, sm) of F
EvalFemaleTotal ==
    /\ tpc = "init"
    /\ tC' = ConsumptionExpenditures(tVal)
    /\ tE' = Expenditures(tC', tVal)
    /\ tR' = aggregate_flow_time_allocation_ratio("f", tE', tTw, tD)
    /\ tLf' = total_time_allocation(tR')
    /\ tpc' = "female"
    /\ UNCHANGED <<tVal, tTw, tD, tLm, rvars, wvars, jvars, svars, cvars, pvars, dvars,
                   hvars, gvars>>

\* Lm(tw, sf, sm) of F
EvalMaleTotal ==
    /\ tpc = "female"
    /\ tC' = ConsumptionExpenditures(tVal)
    /\ tE' = Expenditures(tC', tVal)
    /\ tR' = aggregate_flow_time_allocation_ratio("m", tE', tTw, tD)
    /\ tLm' = total_time_allocation(tR')
    /\ tpc' = "both"
    /\ UNCHANGED <<tVal, tTw, tD, tLf, rvars, wvars, jvars, svars, cvars, pvars, dvars,
                   hvars, gvars>>

NextTime == EvalFemaleTotal \/ EvalMaleTotal

SpecTime == InitTime /\ [][NextTime]_vars

(***************************************************************************)
(* Calibration setups: the table, the identifier, the weights the data     *)
(* starts with, a weighted target and its data and predicted values are    *)
(* drawn in the initial state.                                             *)
(***************************************************************************)
InitSetup ==
    /\ hTable \in Tables
    /\ hMode \in DOMAIN TableOf(hTable) \cup {<<"unknown">>}
    /\ hData0 \in {InitialData(w) : w \in [WeightNames -> 1..MaxWeight]}
    /\ hData = hData0
    /\ hTarget \in WeightNames
    /\ hDataVal \in 1..MaxValue /\ hPredVal \in 1..MaxValue
    /\ hCallback = "unset" /\ hError = 0 - 1 /\ hErr = "none" /\ hpc = "init"
    /\ IdleResolver /\ IdleWage /\ IdleJacobian /\ IdleSolver /\ IdleCalibration
    /\ IdlePersist /\ IdleData /\ IdleTime /\ IdleSchooling

\* prepare_mode_config(config, mode)
PrepareModeConfig ==
    /\ hpc = "init"
    /\ IF hMode \notin DOMAIN TableOf(hTable)
       THEN /\ hErr' = "ValueError" /\ hpc' = "failed"
            /\ UNCHANGED hCallback
       ELSE /\ hCallback' = TableOf(hTable)[hMode] /\ hpc' = "configured"
            /\ UNCHANGED hErr
    /\ UNCHANGED <<hTable, hMode, hData0, hData, hTarget, hDataVal, hPredVal, hError>>
    /\ UNCHANGED <<rvars, wvars, jvars, svars, cvars, pvars, dvars, tvars, gvars>>

\* data = preparation_callback(data)
ApplyCallback ==
    /\ hpc = "configured"
    /\ IF hCallback = NoCallable
       THEN /\ hErr' = "TypeError" /\ hpc' = "failed"
            /\ UNCHANGED hData
       ELSE /\ hData' = Compose(hCallback, hData) /\ hpc' = "prepared"
            /\ UNCHANGED hErr
    /\ UNCHANGED <<hTable, hMode, hCallback, hData0, hTarget, hDataVal, hPredVal, hError>>
    /\ UNCHANGED <<rvars, wvars, jvars, svars, cvars, pvars, dvars, tvars, gvars>>

\* the error of one target of data["calibrator"]["targets"]
EvaluateTarget ==
    /\ hpc = "prepared"
    /\ hTarget \in hData.targets
    /\ hError' = TargetError(hTable, hTarget, hData, hDataVal, hPredVal)
    /\ hpc' = "evaluated"
    /\ UNCHANGED <<hTable, hMode, hCallback, hData0, hData, hTarget, hDataVal, hPredVal,
                   hErr>>
    /\ UNCHANGED <<rvars, wvars, jvars, svars, cvars, pvars, dvars, tvars, gvars>>

NextSetup == PrepareModeConfig \/ ApplyCallback \/ EvaluateTarget

SpecSetup == InitSetup /\ [][NextSetup]_vars

(***************************************************************************)
(* Schooling conditions.  make_female_schooling_condition(model_data, ip)  *)
(* and make_male_schooling_condition(model_data, ip) return a function of  *)
(* (tw, sf, sm); one call of it resolves the relative expenditure          *)
(* E(other, ip) and evaluates the factor 1 / (1 + E).  The value of a      *)
(* non-trivial E at the point is a positive integer up to MaxE; the        *)
(* trivial E is 1 at every point.                                          *)
(***************************************************************************)
MaxE == 8

Genders == {"female", "male"}

\* sector = index[0]; other = sector + ("r" if sector == "h" else "h")
schooling_other(index) ==
    Idx(SectorOf(index), IF SectorOf(index) = "h" THEN "r" ELSE "h")

\* 1 / (1 + Eiqip(tw, sf, sm))
ExpenditureFactor(v) == Rat(1, 1 + v)

InitSchooling ==
    /\ gKeys \in KeySets /\ gIndex \in ProductionIndices /\ gGender \in Genders
    /\ gOther = "none" /\ gE = NoFn /\ gVal = 0 /\ gFactor = <<0, 1>> /\ gpc = "init"
    /\ IdleResolver /\ IdleWage /\ IdleJacobian /\ IdleSolver /\ IdleCalibration
    /\ IdlePersist /\ IdleData /\ IdleTime /\ IdleSetup

\* one call schooling(tw, sf, sm) of the condition of the gender g
SchoolingCall(g) ==
    /\ gpc = "init" /\ gGender = g
    /\ gOther' = schooling_other(gIndex)
    /\ \E e \in make_relative_consumption_expenditure(gKeys, schooling_other(gIndex),
                                                      gIndex),
          v \in 1..MaxE :
        /\ gE' = e
        /\ IF e.kind # "fn"
           THEN gVal' = 0 /\ gFactor' = <<0, 1>> /\ gpc' = "failed"
           ELSE /\ gVal' = (IF IsOne(e) THEN 1 ELSE v)
                /\ gFactor' = ExpenditureFactor(IF IsOne(e) THEN 1 ELSE v)
                /\ gpc' = "evaluated"
    /\ UNCHANGED <<gKeys, gIndex, gGender>>
    /\ UNCHANGED <<rvars, wvars, jvars, svars, cvars, pvars, dvars, tvars, hvars>>

\* lines 1050-1082
FemaleSchoolingCondition == SchoolingCall("female")

\* lines 1085-1117
MaleSchoolingCondition == SchoolingCall("male")

NextSchooling == FemaleSchoolingCondition \/ MaleSchoolingCondition

SpecSchooling == InitSchooling /\ [][NextSchooling]_vars

(***************************************************************************)
(* C1: reciprocity.  With the default calibrated keys, for every ordered   *)
(* pair of flow indices the function built for (over, under) times the one *)
(* built for (under, over) is the constant 1.                              *)
(***************************************************************************)
C1_Reciprocity ==
    (rpc \in {"both", "all"} /\ keys = DefaultKeys) => IsOne(Mul(Efwd, Erev))

(***************************************************************************)
(* C2: identity.  For every flow index A, make_relative_expenditure(A, A)  *)
(* (and make_relative_consumption_expenditure(A, A) for a production       *)
(* index) is the constant function 1, built without a single productivity  *)
(* lookup, whatever the calibrated keys are.                               *)
(***************************************************************************)
C2_Identity ==
    /\ (rpc \in {"fwd", "both", "all"} /\ over = under) => Efwd = Const1
    /\ (rpc = "all" /\ over = under) => Ecns = Const1

C2_Witness ==
    /\ rpc = "all" /\ over = under /\ over = "Mh" /\ keys = CutKeys
    /\ Ecns = Const1 /\ Efwd = Const1

(***************************************************************************)
(* C3: wage-bill complementarity.  For every flow index and every point    *)
(* the female and the male wage bill add up to exactly 1.                  *)
(***************************************************************************)
C3_Complementarity ==
    wpc = "both" => RatAdd(wIf, wIm) = RatOne

C3_Witness ==
    /\ wpc = "both" /\ wIdx = "Ah" /\ wAdj # RatOne
    /\ wIf # RatOne /\ wIm # <<0, 1>> /\ RatAdd(wIf, wIm) = RatOne

(***************************************************************************)
(* C4: Jacobian step-shrink.  make_jacobian starts at step 1e-10, divides  *)
(* the step by 10 after every attempt that is not clean (NaN, or a column  *)
(* left unset by ZeroDivisionError), returns the first clean Jacobian, and *)
(* raises "Jacobian calculation failed" exactly when the attempts at       *)
(* 1e-10, at the 10 times and at the 100 times smaller step all fail; an F *)
(* that is clean at the 10 or the 100 times smaller step gets a Jacobian.  *)
(***************************************************************************)
Unclean(o) == o \in {"nan", "zerodiv"}

C4_StepShrink ==
    jpc = "done" =>
        /\ (jProf[1] = "clean") =>
              jRes = [status |-> "ok", step |-> <<10, 0>>, attempts |-> 1]
        /\ (Unclean(jProf[1]) /\ jProf[2] = "clean") =>
              jRes = [status |-> "ok", step |-> <<11, 1>>, attempts |-> 2]
        /\ (Unclean(jProf[1]) /\ Unclean(jProf[2]) /\ jProf[3] = "clean") =>
              jRes = [status |-> "ok", step |-> <<12, 1>>, attempts |-> 3]
        /\ (jRes.status = "ValueError:Jacobian") <=>
              (Unclean(jProf[1]) /\ Unclean(jProf[2]) /\ Unclean(jProf[3]))

C4_Witness ==
    /\ jpc = "done" /\ jProf[1] = "nan" /\ jProf[2] = "zerodiv" /\ jProf[3] = "clean"
    /\ jRes.status = "ok" /\ jRes.attempts = 3

(***************************************************************************)
(* C5: Newton monotonic improvement.  A candidate is accepted only if F    *)
(* has a value there with a norm strictly below the norm at the current    *)
(* iterate and its Jacobian is computed and invertible; so the norm at     *)
(* every outer iterate after the first is strictly below the norm at the   *)
(* iterate before it.                                                      *)
(***************************************************************************)
C5_Monotonic ==
    [][/\ (stepped' /\ ~stepped) =>
              /\ yn'.F = "value" /\ yn'.J = "ok" /\ ~yn'.sing
              /\ yn'.norm # NaN /\ Flen # NaN /\ yn'.norm < Flen
       /\ (pc = "loop" /\ pc' = "backtrack" /\ n > 0) =>
              (Flen' # NaN /\ Flen' < Flen)]_vars

C5_Witness == pc = "backtrack" /\ n = 3 /\ Flen = MaxNorm - 3 /\ ~stepped

(***************************************************************************)
(* C6: iteration cap.  One call of solve_foc completes at most maxn (35)   *)
(* outer iterations.                                                       *)
(***************************************************************************)
C6_IterationCap == n <= maxn

(***************************************************************************)
(* C7: non-convergence is not fatal.  When the outer loop ends because the *)
(* budget is used up with neither tolerance met, solve_foc raises nothing: *)
(* it warns that it did not converge and returns its iterate y.            *)
(***************************************************************************)
C7_NonFatal ==
    (pc \in {"done", "failed"} /\ ~converged /\ ~OuterGuard(n, converged)) =>
        /\ pc = "done" /\ err = "none" /\ warned
        /\ result = y /\ result.F = "value"

C7_Witness ==
    /\ pc = "done" /\ ~converged /\ warned /\ err = "none"
    /\ n > maxn /\ result.norm > Ftol

(***************************************************************************)
(* C8: termination.  Every call of solve_foc ends: it returns or raises.   *)
(***************************************************************************)
C8_Termination == <>(pc \in {"done", "failed"})

C8_Witness == pc = "failed" /\ err = "ValueError:step" /\ n = 2

(***************************************************************************)
(* C9: non-negative iterates.  No candidate with a negative component is   *)
(* accepted: it is rejected and the next smaller factor is tried, so the   *)
(* iterates after the first and the returned vector have no negative       *)
(* component.                                                              *)
(***************************************************************************)
C9_NonNegative ==
    /\ stepped => yn.neg = {}
    /\ (pc \in {"loop", "backtrack"} /\ n > 0) => y.neg = {}
    /\ pc = "done" => result.neg = {}

C9_Witness ==
    /\ pc = "backtrack" /\ ~stepped /\ yn.neg = {"sf"} /\ alam = <<1, 0>>
    /\ BacktrackGuard(stepped, alam) /\ y.neg = {}

(***************************************************************************)
(* C10: the outer loop survives bad trials.  After a trial whose Newton    *)
(* solve failed, the optimisation is still running or has ended normally:  *)
(* the run is never aborted by the trial's exception.                      *)
(***************************************************************************)
C10_SurvivesBadTrials == cerr # "none" => cpc \in {"optimizing", "returned"}

(***************************************************************************)
(* C11: warm start.  With adaptive initialization, after any trials x0 is  *)
(* the Newton solution of a trial with the smallest sum of absolute errors *)
(* seen so far; without it x0 stays the guess of the input data.           *)
(***************************************************************************)
C11_WarmStart ==
    /\ (adaptive /\ seen # {}) =>
          \E t \in seen : t[1] = x0 /\ \A u \in seen : t[2] <= u[2]
    /\ ~adaptive => x0 = 0

(***************************************************************************)
(* C12: loading skips re-optimisation.  When a record exists the optimiser *)
(* never runs (no trial), the record on disk is left as it is and it is    *)
(* the record returned; trials are made and the file is written only when  *)
(* no record existed.                                                      *)
(***************************************************************************)
C12_LoadSkips ==
    /\ existed => (trials = 0 /\ file = OldRecord /\ cpc # "optimizing")
    /\ (existed /\ cpc = "returned") => calRes = OldRecord
    /\ (~existed /\ cpc = "returned") => (trials > 0 /\ file = calRes)
    /\ (~existed /\ cpc # "returned") => file = NoRecord

C12_Witness ==
    existed /\ cpc = "returned" /\ calRes = OldRecord /\ file = OldRecord /\ trials = 0

(***************************************************************************)
(* C13: round-trip persistence.  Saving a result where there is no record  *)
(* returns True and a following load gives a record with the same          *)
(* parameter vector, objective value and status; where there is a record,  *)
(* save returns False, leaves the file as it is, and load gives the        *)
(* earlier record.                                                         *)
(***************************************************************************)
C13_RoundTrip ==
    /\ (ppc \in {"saved", "loaded"} /\ pOld = NoFile) => pRet = TRUE
    /\ (ppc = "loaded" /\ pOld = NoFile) => pLoaded = pRec
    /\ (ppc \in {"saved", "loaded"} /\ pOld # NoFile) =>
          (pRet = FALSE /\ pFile = pOld)
    /\ (ppc = "loaded" /\ pOld # NoFile) => pLoaded = EarlierResult

C13_Witness ==
    /\ ppc = "loaded" /\ pOld = NoFile /\ pRet /\ Len(pRec.x) = MaxLen
    /\ pRec.x[1] # pRec.x[2] /\ pRec.fun > 256 /\ pLoaded = pRec

(***************************************************************************)
(* C14: unset free parameters are a construction-time error.  No           *)
(* evaluation of F is ever begun while a free parameter is not set: a      *)
(* model with an unset value is rejected before that, so F never fails,    *)
(* or runs, on a value that is None.                                       *)
(***************************************************************************)
C14_UnsetIsConstructionError ==
    dpc \in {"evaluated", "raised in F"} => \A k \in DOMAIN cal : cal[k] # None

(***************************************************************************)
(* C15: subsistence hook.  Once the no-subsistence hook is installed, an   *)
(* evaluation of F does not fail on the deleted entry and the subsistence  *)
(* term it reads is 0.                                                     *)
(***************************************************************************)
C15_HookIsRead ==
    (/\ "hat_c" \in hooks /\ dpc \in {"evaluated", "raised in F"}
     /\ \A k \in DOMAIN cal : cal[k] # None) =>
        /\ derr # "KeyError"
        /\ ReadSubsistence(cal, hooks) = [value |-> 0, err |-> "none"]

(***************************************************************************)
(* C17: stable parameter order.  The i-th component of the initial vector, *)
(* of the bounds and of every trial vector belongs to the i-th key of the  *)
(* initializers: after a trial the model data hold the i-th component of   *)
(* the trial vector under that key.                                        *)
(***************************************************************************)
C17_StableOrder ==
    /\ calibrated_parameters # <<>> =>
          /\ Len(calibrated_parameters) = Len(initializers)
          /\ \A i \in 1..Len(initializers) :
                /\ calibrated_parameters[i] = initializers[i][1]
                /\ xinit[i] = initializers[i][2]
                /\ bounds[i] = LowerBound(initializers[i][1])
    /\ (yvec # <<>> /\ dpc # "raised") =>
          \A i \in 1..Len(initializers) : cal[initializers[i][1]] = yvec[i]

C17_Witness ==
    /\ dpc = "evaluated" /\ yvec # <<>> /\ initializers = DictOf(Reverse(Schema))
    /\ cal["hat_c"] = 18 /\ bounds[8] = 0

(***************************************************************************)
(* C18: chained composition.  With the default keys, when neither          *)
(* Z_{over}{under} nor its inverse is calibrated the function built is the *)
(* product along one chain from over to under: every calibrated ratio      *)
(* enters at most once (exponent 1, or -1 for the inverse), the ones that  *)
(* enter are two to four links, they leave over, arrive at under and pass  *)
(* through every index in between; nothing else enters.                    *)
(***************************************************************************)
RECURSIVE SumExp(_, _)
SumExp(S, f) ==
    IF S = {} THEN 0
    ELSE LET a == CHOOSE b \in S : TRUE IN f.exp[a] + SumExp(S \ {a}, f)

\* links leaving v minus links arriving at v, counted with their exponents
NetOut(v, f) ==
    SumExp({a \in DefaultKeys : a[1] = v}, f) - SumExp({a \in DefaultKeys : a[2] = v}, f)

IsChain(f, ov, un) ==
    /\ f.kind = "fn"
    /\ \A a \in DefaultKeys : f.exp[a] \in {0 - 1, 0, 1}
    /\ \A a \in LeisureAtoms : f.exp[a] = 0
    /\ Cardinality({a \in DefaultKeys : f.exp[a] # 0}) \in 2..4
    /\ NetOut(ov, f) = 1 /\ NetOut(un, f) = 0 - 1
    /\ \A v \in ProductionIndices \ {ov, un} : NetOut(v, f) = 0

C18_ChainedComposition ==
    (/\ rpc = "all" /\ keys = DefaultKeys /\ over # under
     /\ has_relative_productivity(keys, over, under) = 0) => IsChain(Ecns, over, under)

(***************************************************************************)
(* C19 as claimed: every update of the damping multiplier inside the       *)
(* backtracking loop halves it.                                            *)
(***************************************************************************)
RECURSIVE Pow10(_)
Pow10(k) == IF k = 0 THEN 1 ELSE 10 * Pow10(k - 1)

\* the multiplier in units of 1e-7, to the nearest unit
Scaled(x) == Pow10(7 - x[1])

C19_Halving ==
    [][(pc = "backtrack" /\ alam' # alam) => 2 * Scaled(alam') = Scaled(alam)]_vars

(***************************************************************************)
(* C19 as amended: in each outer iteration alam starts at 10 * lambda and  *)
(* is repeatedly divided by 10; the candidates are tried in that strictly  *)
(* decreasing order, the first with alam = lambda, while no candidate is   *)
(* accepted and alam is above 1e-6 before the division; when the           *)
(* iteration fails, every factor down to the smallest, the double          *)
(* 1.0000000000000002e-07, has been tried.                                 *)
(***************************************************************************)
C19_Schedule ==
    [][/\ (pc = "loop" /\ pc' = "backtrack") => alam' = <<0 - 1, 0>>
       /\ (pc = "backtrack" /\ alam' # alam) =>
             /\ ~stepped /\ FloatGt(alam, <<6, 0>>)
             /\ 10 * Scaled(alam') = Scaled(alam) /\ FloatGt(alam, alam')
             /\ (alam = <<0 - 1, 0>> => alam' = <<0, 0>>)
       /\ (pc = "backtrack" /\ pc' = "failed" /\ err' = "ValueError:step") =>
             alam = <<7, 2>>]_vars

C19_Witness == pc = "backtrack" /\ alam = <<6, 1>> /\ ~stepped /\ n = 1

(***************************************************************************)
(* C20: a failure to step is fatal.  When the backtracking loop ends with  *)
(* no candidate accepted, solve_foc raises ValueError and returns no       *)
(* iterate; whenever it returns, the candidate of its last iteration was   *)
(* accepted with a smaller residual norm.                                  *)
(***************************************************************************)
C20_FatalBacktracking ==
    [][/\ (pc = "backtrack" /\ ~stepped /\ ~BacktrackGuard(stepped, alam)) =>
             (pc' = "failed" /\ err' = "ValueError:step" /\ result' = NoPoint)
       /\ (pc' = "done") =>
             (stepped' /\ err' = "none" /\ result' = y' /\ NormLt(yn'.norm, Flen'))]_vars

C20_Witness ==
    /\ pc = "failed" /\ err = "ValueError:step" /\ result = NoPoint
    /\ yn.F = "ValueError" /\ n = 1

C21_PathExists ==
    (rpc = "all" /\ keys = DefaultKeys) => (Ecns.kind = "fn" /\ Ecns.lookups <= 15)

C21_Witness ==
    /\ rpc = "all" /\ keys = DefaultKeys /\ over = "Ah" /\ under = "Mh"
    /\ Ecns.kind = "fn" /\ Ecns.lookups = 15

(***************************************************************************)
(* C23: path consistency.  With the default calibrated keys and every      *)
(* calibrated ratio an independent symbol, the function built for          *)
(* (over, under) is the product of the ones built for (over, B) and        *)
(* (B, under), for every production index B.                               *)
(***************************************************************************)
C23_PathConsistency ==
    (rpc = "all" /\ keys = DefaultKeys) =>
        \A B \in ProductionIndices :
            \A f \in make_relative_consumption_expenditure(keys, over, B) :
                \A g \in make_relative_consumption_expenditure(keys, B, under) :
                    Ecns.kind = "fn" /\ Ecns.exp = Mul(f, g).exp

(***************************************************************************)
(* C22: every setup identifier maps to a hook.  For every name of the      *)
(* setup tables the mapped value is a function of the model data, so the   *)
(* callback stored by prepare_mode_config can be applied for every         *)
(* accepted mode.                                                          *)
(***************************************************************************)
C22_EveryNameHasHook ==
    /\ hpc = "configured" => hCallback # NoCallable
    /\ hErr # "TypeError"

(***************************************************************************)
(* C27: consistent weighting.  After any setup hook, the data value and    *)
(* the prediction of a weighted target are multiplied by the same weight,  *)
(* the one the data holds at evaluation: the error of the target is        *)
(* weight * |data - prediction|.                                           *)
(***************************************************************************)
C27_ConsistentWeights ==
    hpc = "evaluated" =>
        hError = hData.weights[hTarget]
                    * (IF hDataVal < hPredVal THEN hPredVal - hDataVal
                       ELSE hDataVal - hPredVal)

(***************************************************************************)
(* C28: a named setup is the composition of the primitive effects its      *)
(* identifier names, and changes nothing else.  abs-schooling sets the sf  *)
(* and sm weights to 1, no-schooling deletes the sf and sm targets,        *)
(* no-subsistence removes hat_c and installs the zero hook, no-wages       *)
(* deletes the tw target, scl-wages sets the tw weight to 100.             *)
(***************************************************************************)
PartEffect(part, d) ==
    CASE part = "abs-schooling" -> set_schooling_weight(d)
      [] part = "no-schooling" -> prepare_no_schooling(d)
      [] part = "rel-schooling" -> d
      [] part = "no-subsistence" -> remove_income(d)
      [] part = "no-wages" -> remove_wages(d)
      [] part = "scl-wages" -> set_wages_weight(d)
      [] part \in {"scl-income", "scl-subsistence"} -> set_income_weight(d)
      [] part = "no-modern-service-share-heterogeneity" ->
             set_no_modern_service_share_heterogeneity(d)
      [] part = "with-low-income-shares" -> set_low_income_shares(d)

RECURSIVE NamedEffects(_, _)
NamedEffects(parts, d) ==
    IF parts = <<>> THEN d ELSE NamedEffects(Tail(parts), PartEffect(Head(parts), d))

C28_NamedComposition ==
    hpc \in {"prepared", "evaluated"} => hData = NamedEffects(hMode, hData0)

(***************************************************************************)
(* C24: an already-converged start is accepted.  When the caller's guess   *)
(* evaluates to a residual norm <= Ftol (an exact root included), the      *)
(* solve does not end with the failure to step.                            *)
(***************************************************************************)
C24_ConvergedStartAccepted ==
    (n = 0 /\ NormLeq(Flen, Ftol)) => ~(pc = "failed" /\ err = "ValueError:step")

(***************************************************************************)
(* C25: the vector returned by solve_foc is the last accepted candidate,   *)
(* and its residual norm is no larger than that of the candidate accepted  *)
(* by the last outer iteration.                                            *)
(***************************************************************************)
C25_ReturnsLastAccepted ==
    (pc = "done" /\ n >= 1) => (result = yn /\ NormLeq(result.norm, yn.norm))

(***************************************************************************)
(* C26: after the first outer iteration the current iterate is the         *)
(* candidate the previous iteration accepted, so F, the Jacobian and its   *)
(* inverse at the current iterate do not fail: every outer iteration with  *)
(* n >= 1 reaches the backtracking loop.                                   *)
(***************************************************************************)
C26_OnlyGuessFails ==
    [][(pc = "loop" /\ n >= 1 /\ OuterGuard(n, converged))
          => (pc' = "backtrack" /\ y' = yn /\ Accepted(yn, Flen))]_vars

C26_Witness ==
    n >= 1 /\ pc = "backtrack" /\ y = yn /\ ~stepped /\ alam = TenTimes(lambda)

(***************************************************************************)
(* C29: a failed trial leaves the calibration state as it was.  A trial    *)
(* whose Newton solve raises changes neither the free-parameter values of  *)
(* the model data, nor the warm start x0, nor min_sae.                     *)
(***************************************************************************)
C29_FailedTrialRestores ==
    [][(cerr = "none" /\ cerr' # "none")
          => (calibrated' = calibrated /\ x0' = x0 /\ min_sae' = min_sae)]_vars

(***************************************************************************)
(* C30: in the schooling conditions of a reference index ip the relative   *)
(* expenditure in the factor 1 / (1 + E) is the one between the other      *)
(* technology of ip's sector and ip, never the trivial E(ip, ip) = 1; for  *)
(* the reference index Sh of make_foc it is E(Sr, Sh).                     *)
(***************************************************************************)
C30_OtherTechnology ==
    gpc = "evaluated" =>
        /\ gOther = OtherTechnology(gIndex)
        /\ ~IsOne(gE)
        /\ (gIndex = "Sh" => gOther = "Sr")

====
